---- MODULE Spec2Model ----
(***************************************************************************)
(* Model of the fetch-and-normalize core of the Mercado Publico ETL:       *)
(*   - the response parser (EvaluadorAPI._parsear_licitaciones and the     *)
(*     parse_licitaciones copies), a pure function over JSON values;       *)
(*   - the retrying download (ProcesadorLicitaciones.fetch_con_reintentos  *)
(*     with _calcular_tiempo_espera), a loop over HTTP attempts.           *)
(* SpecParse applies the parser to every payload of a bounded set of JSON  *)
(* values; SpecFetch runs one call of fetch_con_reintentos against every   *)
(* sequence of server responses; SpecScripts runs one call of each of the  *)
(* three retrying downloads of the repository; SpecPair interleaves two    *)
(* calls of fetch_con_reintentos; SpecRun runs main's path from the        *)
(* credential through the evaluation, the download and the writing of the  *)
(* outputs to its exit code; SpecFetchFair is SpecFetch with weak fairness *)
(* on the steps of the call, for termination.                              *)
(***************************************************************************)
EXTENDS Integers, Sequences, FiniteSets, TLC

VARIABLES
    payload,        \* parser: the JSON value handed to the parser
    parsed,         \* parser: the value the parser returned
    ppc,            \* parser: "off" | "ready" | "done"
    cfg,            \* fetch: the ConfiguracionAPI in use (MAX_RETRIES, BACKOFF_FACTOR)
    json_error,     \* fetch: what response.json() raises on a body that is not JSON
    pc,             \* fetch: "off" | "idle" | "loop" | "done"
    arg_max_retries,\* fetch: the max_retries argument of the call
    max_retries,    \* fetch: local max_retries after line 321
    intento,        \* fetch: loop variable of line 325 (0 before the first iteration)
    last_error,     \* fetch: local last_error
    requests_get,   \* fetch: number of requests.get calls issued so far
    got,            \* fetch: the responses received, one per attempt
    waits,          \* fetch: the durations passed to time.sleep that completed
    outcome,        \* fetch: how the call ended (returned value or raised error)
    params,         \* fetch: the params argument, a query-parameter mapping
    sent,           \* the query parameters of every HTTP request issued, in order
    script,         \* which retrying download runs: "refactorizado" | "backup" | "licitaciones"
    calls,          \* two calls: the locals of each invocation of fetch_con_reintentos
    cli,            \* run: the command line (ticket, fecha, estado)
    entorno,        \* run: config.TICKET and the MERCADO_PUBLICO_TICKET variable
    ticket,         \* run: the credential obtener_ticket returned
    evaluacion,     \* run: the call of evaluar_api: its response and its result
    rpc,            \* run: "off" | "inicio" | "evaluar" | "descargar" | "fin"
    archivos,       \* run: the outputs written: "raw", "clean", "negocio" (CSV), "sqlite"
    resultado,      \* run: how procesar_licitaciones ended (returned dict or raised)
    exit_code       \* run: what main returned (-1 while it runs)

parser_vars == <<payload, parsed, ppc>>
fetch_vars == <<cfg, json_error, pc, arg_max_retries, max_retries, intento, last_error,
                requests_get, got, waits, outcome, params, sent>>
pair_vars == <<calls>>
run_vars == <<cli, entorno, ticket, evaluacion, rpc, archivos, resultado, exit_code>>
vars == <<payload, parsed, ppc, cfg, json_error, pc, arg_max_retries, max_retries, intento,
          last_error, requests_get, got, waits, outcome, params, sent, script, calls,
          cli, entorno, ticket, evaluacion, rpc, archivos, resultado, exit_code>>

(***************************************************************************)
(* JSON values, as json.loads builds them: a tag t and the Python value v. *)
(***************************************************************************)
JNull == [t |-> "null", v |-> "None"]
JBool(b) == [t |-> "bool", v |-> b]
JNum(n) == [t |-> "num", v |-> n]
JStr(s) == [t |-> "str", v |-> s]
JList(s) == [t |-> "list", v |-> s]
JDict(f) == [t |-> "dict", v |-> f]

\* isinstance(x, list), isinstance(x, dict)
isinstance_list(x) == x.t = "list"
isinstance_dict(x) == x.t = "dict"

\* the empty dict {} and the empty list []
EmptyMap == [k \in {} |-> JNull]
EmptyList == JList(<<>>)

\* Bound: longest list of records in a payload.
MaxLen == 2

\* Two listing records and one element that is not a record.
Rec1 == JDict("CodigoExterno" :> JStr("1-LE25"))
Rec2 == JDict("CodigoExterno" :> JStr("2-LP25"))
Elems == {Rec1, Rec2, JNum(7)}

RECURSIVE SeqsUpTo(_, _)
SeqsUpTo(S, n) ==
    IF n = 0 THEN {<<>>}
    ELSE LET shorter == SeqsUpTo(S, n - 1)
         IN shorter \cup {Append(s, e) : s \in {q \in shorter : Len(q) = n - 1}, e \in S}

Lists == {JList(s) : s \in SeqsUpTo(Elems, MaxLen)}
Scalars == {JNull, JNum(42), JStr("Listado"), JBool(TRUE)}

\* Values found under a key: scalars, lists, a bare record.
Values == Scalars \cup Lists \cup {Rec1}

\* A mapping with the key k bound to a value of S, or without the key.
Opt(k, S) == {EmptyMap} \cup {k :> x : x \in S}

\* What "Listado" may hold: any value, or a mapping with or without "Licitacion".
InnerDicts == {JDict(a @@ b) : a \in Opt("Licitacion", Values), b \in Opt("Cantidad", {JNum(2)})}
ListadoValues == Values \cup InnerDicts

PayloadDicts ==
    {JDict(a @@ b @@ c @@ d) :
        a \in Opt("Listado", ListadoValues),
        b \in Opt("Licitacion", Values),
        c \in Opt("Resultados", Scalars \cup {EmptyList, JList(<<Rec2>>), JList(<<Rec2, Rec1>>)}),
        d \in Opt("Foo", {EmptyList})}

Payloads == Scalars \cup Lists \cup PayloadDicts

(***************************************************************************)
(* EvaluadorAPI._parsear_licitaciones, licitaciones_refactorizado.py       *)
(* 245-260.  "k in d" on a dict and isinstance never raise, so the only    *)
(* results are the returned values.  The conditions of the four mapping    *)
(* branches are named; the function tries them in the order of the code.   *)
(***************************************************************************)
\* Faulty variant: a list counts only when every element is a record.
EsListaDeRegistros(p) ==
    isinstance_list(p) /\ \A i \in 1..Len(p.v) : isinstance_dict(p.v[i])

\* line 247
EsListaDirecta(p) == isinstance_list(p)

\* Faulty variant: the nested value must itself be a list.
RamaListadoAnidadoEstricta(p) ==
    /\ "Listado" \in DOMAIN p.v
    /\ isinstance_dict(p.v["Listado"])
    /\ "Licitacion" \in DOMAIN p.v["Listado"].v
    /\ isinstance_list(p.v["Listado"].v["Licitacion"])

\* lines 250-252: "Listado" in payload, listado is a dict holding "Licitacion"
RamaListadoAnidado(p) ==
    /\ "Listado" \in DOMAIN p.v
    /\ isinstance_dict(p.v["Listado"])
    /\ "Licitacion" \in DOMAIN p.v["Listado"].v

\* Faulty variant: the {"Listado": [...]} shape is not handled.
RamaListadoListaAusente(p) == FALSE

\* lines 250-251, 254: "Listado" in payload, listado is a list
RamaListadoLista(p) ==
    /\ "Listado" \in DOMAIN p.v
    /\ isinstance_list(p.v["Listado"])

\* Faulty variant: the isinstance check of line 256 is missing.
RamaLicitacionSinTipo(p) == "Licitacion" \in DOMAIN p.v

\* line 256
RamaLicitacion(p) ==
    /\ "Licitacion" \in DOMAIN p.v
    /\ isinstance_list(p.v["Licitacion"])

\* Faulty variant: the "Resultados" alias is not handled.
RamaResultadosAusente(p) == FALSE

\* line 258
RamaResultados(p) ==
    /\ "Resultados" \in DOMAIN p.v
    /\ isinstance_list(p.v["Resultados"])

\* Faulty variant: "Resultados" is tried before "Listado" and "Licitacion".
_parsear_licitaciones_resultados_primero(p) ==
    IF EsListaDirecta(p) THEN p
    ELSE IF isinstance_dict(p) THEN
        IF RamaResultados(p) THEN p.v["Resultados"]
        ELSE IF RamaListadoAnidado(p) THEN p.v["Listado"].v["Licitacion"]
        ELSE IF RamaListadoLista(p) THEN p.v["Listado"]
        ELSE IF RamaLicitacion(p) THEN p.v["Licitacion"]
        ELSE EmptyList
    ELSE EmptyList

\* Faulty variant: the tests of lines 256 and 258 are "elif"s of line 250, so a
\* payload with the key "Listado" never reaches them.
_parsear_licitaciones_elif(p) ==
    IF EsListaDirecta(p) THEN p
    ELSE IF isinstance_dict(p) THEN
        IF "Listado" \in DOMAIN p.v THEN
            IF RamaListadoAnidado(p) THEN p.v["Listado"].v["Licitacion"]
            ELSE IF RamaListadoLista(p) THEN p.v["Listado"]
            ELSE EmptyList
        ELSE IF RamaLicitacion(p) THEN p.v["Licitacion"]
        ELSE IF RamaResultados(p) THEN p.v["Resultados"]
        ELSE EmptyList
    ELSE EmptyList

_parsear_licitaciones(p) ==
    IF EsListaDirecta(p) THEN p
    ELSE IF isinstance_dict(p) THEN
        IF RamaListadoAnidado(p) THEN p.v["Listado"].v["Licitacion"]
        ELSE IF RamaListadoLista(p) THEN p.v["Listado"]
        ELSE IF RamaLicitacion(p) THEN p.v["Licitacion"]
        ELSE IF RamaResultados(p) THEN p.v["Resultados"]
        ELSE EmptyList
    ELSE EmptyList

\* parse_licitaciones, run_fetch.py 16-30 (the backup script's copy, lines
\* 58-72, is the same text).
parse_licitaciones(p) ==
    IF isinstance_list(p) THEN p
    ELSE IF isinstance_dict(p) THEN
        IF "Listado" \in DOMAIN p.v
           /\ isinstance_dict(p.v["Listado"])
           /\ "Licitacion" \in DOMAIN p.v["Listado"].v
        THEN p.v["Listado"].v["Licitacion"]
        ELSE IF "Listado" \in DOMAIN p.v /\ isinstance_list(p.v["Listado"])
        THEN p.v["Listado"]
        ELSE IF "Licitacion" \in DOMAIN p.v /\ isinstance_list(p.v["Licitacion"])
        THEN p.v["Licitacion"]
        ELSE IF "Resultados" \in DOMAIN p.v /\ isinstance_list(p.v["Resultados"])
        THEN p.v["Resultados"]
        ELSE EmptyList
    ELSE EmptyList

\* Value of `parsed` before the parser has run.
NotParsed == [t |-> "unset", v |-> "unset"]

ParserOff == payload = JNull /\ parsed = NotParsed /\ ppc = "off"

InitParser == payload \in Payloads /\ parsed = NotParsed /\ ppc = "ready"

\* evaluador._parsear_licitaciones(payload), lines 191 and 483
Parsear ==
    /\ ppc = "ready"
    /\ parsed' = _parsear_licitaciones(payload)
    /\ ppc' = "done"
    /\ UNCHANGED payload

\* parse_licitaciones(payload), run_fetch.py line 77
ParseRunFetch ==
    /\ ppc = "ready"
    /\ parsed' = parse_licitaciones(payload)
    /\ ppc' = "done"
    /\ UNCHANGED payload

(***************************************************************************)
(* The retrying download: ProcesadorLicitaciones.fetch_con_reintentos,     *)
(* licitaciones_refactorizado.py 319-362.                                  *)
(***************************************************************************)
\* Bound: largest max_retries / MAX_RETRIES explored.
MaxRetries == 3

\* min(60, ...) of lines 349, 357 and 371
WaitCap == 60

\* BACKOFF_FACTOR values, as exact fractions <<numerator, denominator>>:
\* 2.0 (the default), 4.5, whose powers 4.5, 20.25, 91.125 are truncated
\* by int() and reach the cap of 60, and 0.5, whose powers are below 1.
Bases == {<<2, 1>>, <<9, 2>>, <<1, 2>>}

\* ConfiguracionAPI as accepted by _validar_configuracion (MAX_RETRIES >= 0,
\* BACKOFF_FACTOR > 0), config_env.py 102-108.
Configs == [MAX_RETRIES : 0..MaxRetries, BACKOFF_FACTOR : Bases]

\* response.json() on a body that is not JSON raises, depending on the
\* installed requests: requests.exceptions.JSONDecodeError (a
\* RequestException, requests >= 2.27) or a plain ValueError.  Which one is
\* "unknown" until the first such body shows it, and the same from then on.
JsonErrorKinds == {"RequestException", "ValueError"}

\* The max_retries argument: None (<<>>) or an int (<<n>>).
NoneArg == <<>>
Args == {NoneArg} \cup {<<n>> : n \in 0..MaxRetries}

\* A header value as headers.get returns it: None, or a string (its characters).
NoHeader == [present |-> FALSE, text |-> <<>>]
Header(chars) == [present |-> TRUE, text |-> chars]
RetryAfterValues ==
    {NoHeader, Header(<<"3">>), Header(<<"9", "0">>), Header(<<"-", "1">>),
     Header(<<"W", "e", "d">>)}

\* What one requests.get call can end in: a RequestException raised by the
\* transport (connection failure, timeout), or a response with a status code,
\* a Retry-After header and a body that is JSON or not.
NetworkError == [kind |-> "neterr", status |-> 0, retry_after |-> NoHeader, json |-> FALSE]
HttpResponse(status, ra, js) ==
    [kind |-> "http", status |-> status, retry_after |-> ra, json |-> js]
Responses ==
    {NetworkError}
    \cup {HttpResponse(200, NoHeader, js) : js \in BOOLEAN}
    \cup {HttpResponse(304, NoHeader, FALSE)}
    \cup {HttpResponse(s, NoHeader, FALSE) : s \in {404, 500, 503}}
    \cup {HttpResponse(429, ra, FALSE) : ra \in RetryAfterValues}

\* Exceptions: the class, the HTTP status it carries (0 when none) and the
\* attempt that created it.
NoError == [type |-> "None", code |-> 0, at |-> 0]
Error(type, code, at) == [type |-> type, code |-> code, at |-> at]

NoOutcome == [kind |-> "none", body |-> 0, err |-> NoError]
Returned(body) == [kind |-> "returned", body |-> body, err |-> NoError]
Raised(err) == [kind |-> "raised", body |-> 0, err |-> err]

\* int(s) of line 368: an optional sign followed by decimal digits.
DigitValue ==
    [c \in {"0", "1", "2", "3", "4", "5", "6", "7", "8", "9"} |->
        CASE c = "0" -> 0 [] c = "1" -> 1 [] c = "2" -> 2 [] c = "3" -> 3
          [] c = "4" -> 4 [] c = "5" -> 5 [] c = "6" -> 6 [] c = "7" -> 7
          [] c = "8" -> 8 [] c = "9" -> 9]

RECURSIVE DigitsValue(_)
DigitsValue(ds) ==
    IF ds = <<>> THEN 0
    ELSE 10 * DigitsValue(SubSeq(ds, 1, Len(ds) - 1)) + DigitValue[ds[Len(ds)]]

AllDigits(ds) == ds # <<>> /\ \A i \in 1..Len(ds) : ds[i] \in DOMAIN DigitValue

\* [ok |-> FALSE] stands for the ValueError int() raises.
int_str(chars) ==
    LET signed == chars # <<>> /\ chars[1] \in {"-", "+"}
        digits == IF signed THEN Tail(chars) ELSE chars
    IN IF AllDigits(digits)
       THEN [ok |-> TRUE,
             value |-> IF signed /\ chars[1] = "-" THEN 0 - DigitsValue(digits)
                       ELSE DigitsValue(digits)]
       ELSE [ok |-> FALSE, value |-> 0]

RECURSIVE Pow(_, _)
Pow(b, n) == IF n = 0 THEN 1 ELSE b * Pow(b, n - 1)

Min(a, b) == IF a <= b THEN a ELSE b

\* int(b ** i) for a base b = <<numerator, denominator>>: int() truncates the
\* positive float.
IntPow(b, i) == Pow(b[1], i) \div Pow(b[2], i)

\* min(60, int(self.config.BACKOFF_FACTOR ** intento)) is written three times:
\* line 371 (429 without usable hint), line 349 (5xx) and line 357 (network).
\* Faulty variants: a 0-based exponent, a missing cap, a doubled wait.
EsperaBackoffBaseCero(i) == Min(WaitCap, IntPow(cfg.BACKOFF_FACTOR, i - 1))
EsperaSinTope(i) == IntPow(cfg.BACKOFF_FACTOR, i)
EsperaDoble(i) == Min(WaitCap, 2 * IntPow(cfg.BACKOFF_FACTOR, i))

\* line 371
EsperaBackoff(i) == Min(WaitCap, IntPow(cfg.BACKOFF_FACTOR, i))

\* line 349
Espera5xx(i) == Min(WaitCap, IntPow(cfg.BACKOFF_FACTOR, i))

\* line 357
EsperaRed(i) == Min(WaitCap, IntPow(cfg.BACKOFF_FACTOR, i))

\* _calcular_tiempo_espera, lines 364-371, with a variant that waits 0 seconds
\* when the header is there but is not an integer
_calcular_tiempo_espera_cero(retry_after, i) ==
    IF retry_after.present /\ retry_after.text # <<>>
    THEN IF int_str(retry_after.text).ok THEN int_str(retry_after.text).value ELSE 0
    ELSE EsperaBackoff(i)

_calcular_tiempo_espera(retry_after, i) ==
    IF retry_after.present /\ retry_after.text # <<>> /\ int_str(retry_after.text).ok
    THEN int_str(retry_after.text).value
    ELSE EsperaBackoff(i)

\* Response.raise_for_status, called at line 342: HTTPError for 4xx and 5xx.
raise_for_status_raises(status) == 400 <= status /\ status < 600

\* line 348, with a variant that also retries 4xx
EsCodigoReintentableAmplio(codigo) == 400 <= codigo /\ codigo < 600

EsCodigoReintentable(codigo) == 500 <= codigo /\ codigo < 600

\* An Optional[str]: None, or a string s.
PyNone == <<>>
PyStr(s) == <<s>>

\* "if x:" on an Optional[str]: None and "" are falsy.
Truthy(x) == x # PyNone /\ x[1] # ""

\* The query-parameter mappings of lines 169-175 and 476-480:
\*   params = {"ticket": ticket}
\*   if fecha: params["fecha"] = fecha   else: params["estado"] = estado
NoParams == [k \in {} |-> ""]
ConstruirParams(tk, fecha, estado) ==
    IF Truthy(fecha)
    THEN ("ticket" :> tk) @@ ("fecha" :> fecha[1])
    ELSE ("ticket" :> tk) @@ ("estado" :> estado)

\* The params of a call of fetch made outside procesar_licitaciones.
ParamsDirectos == ConstruirParams("TICKET-CLI", PyNone, "activas")

FetchOff ==
    /\ cfg = [MAX_RETRIES |-> 0, BACKOFF_FACTOR |-> <<2, 1>>]
    /\ json_error = "unknown"
    /\ pc = "off"
    /\ arg_max_retries = NoneArg
    /\ max_retries = 0
    /\ intento = 0
    /\ last_error = NoError
    /\ requests_get = 0
    /\ got = <<>>
    /\ waits = <<>>
    /\ outcome = NoOutcome
    /\ params = NoParams
    /\ sent = <<>>

InitFetch ==
    /\ cfg \in Configs
    /\ json_error = "unknown"
    /\ pc = "idle"
    /\ arg_max_retries = NoneArg
    /\ max_retries = 0
    /\ intento = 0
    /\ last_error = NoError
    /\ requests_get = 0
    /\ got = <<>>
    /\ waits = <<>>
    /\ outcome = NoOutcome
    /\ params = ParamsDirectos
    /\ sent = <<>>

\* lines 319-323: max_retries = max_retries or self.config.MAX_RETRIES
Llamar(arg) ==
    /\ pc = "idle"
    /\ arg_max_retries' = arg
    /\ max_retries' = IF arg = NoneArg \/ arg = <<0>> THEN cfg.MAX_RETRIES ELSE arg[1]
    /\ last_error' = NoError
    /\ pc' = "loop"
    /\ UNCHANGED <<cfg, json_error, intento, requests_get, got, waits, outcome, params, sent>>

\* line 325 yields the next intento, lines 327-332 issue the request
Solicitar(resp) ==
    /\ pc = "loop"
    /\ intento < max_retries
    /\ intento' = intento + 1
    /\ requests_get' = requests_get + 1
    /\ got' = Append(got, resp)
    /\ sent' = Append(sent, params)
    /\ UNCHANGED <<cfg, arg_max_retries, max_retries, params>>

\* last_error = e (lines 339, 346, 356), with a variant that keeps the first
\* error recorded
RegistrarPrimerError(err) == IF last_error = NoError THEN err ELSE last_error

RegistrarError(err) == err

\* time.sleep(w) followed by the next iteration; time.sleep raises ValueError
\* for a negative duration, which no except clause of the loop catches.
DormirYContinuar(w, err) ==
    IF w < 0
    THEN /\ outcome' = Raised(Error("ValueError", 0, intento + 1))
         /\ pc' = "done"
         /\ UNCHANGED <<waits, last_error>>
    ELSE /\ waits' = Append(waits, w)
         /\ last_error' = RegistrarError(err)
         /\ pc' = "loop"
         /\ UNCHANGED outcome

\* lines 334-340: status 429
Respuesta429(resp) ==
    /\ resp.kind = "http" /\ resp.status = 429
    /\ Solicitar(resp)
    /\ DormirYContinuar(_calcular_tiempo_espera(resp.retry_after, intento + 1),
                        Error("Exception", 429, intento + 1))
    /\ UNCHANGED json_error

\* lines 342, 345-353: raise_for_status raises HTTPError
RespuestaHTTPError(resp) ==
    /\ resp.kind = "http" /\ resp.status # 429
    /\ raise_for_status_raises(resp.status)
    /\ Solicitar(resp)
    /\ IF EsCodigoReintentable(resp.status)
       THEN DormirYContinuar(Espera5xx(intento + 1),
                             Error("HTTPError", resp.status, intento + 1))
       ELSE /\ last_error' = RegistrarError(Error("HTTPError", resp.status, intento + 1))
            /\ outcome' = Raised(Error("HTTPError", resp.status, intento + 1))
            /\ pc' = "done"
            /\ UNCHANGED waits
    /\ UNCHANGED json_error

\* lines 342-343: no HTTPError, the body is JSON: return response.json()
RespuestaJSON(resp) ==
    /\ resp.kind = "http" /\ resp.status # 429
    /\ ~raise_for_status_raises(resp.status)
    /\ resp.json
    /\ Solicitar(resp)
    /\ outcome' = Returned(intento + 1)
    /\ pc' = "done"
    /\ UNCHANGED <<waits, last_error, json_error>>

\* line 343 on a body that is not JSON: response.json() raises; a
\* RequestException is handled by lines 355-359, a ValueError leaves the call.
\* The body of the k-th response is identified by k.
RespuestaNoJSON(resp) ==
    /\ resp.kind = "http" /\ resp.status # 429
    /\ ~raise_for_status_raises(resp.status)
    /\ ~resp.json
    /\ Solicitar(resp)
    /\ json_error' \in JsonErrorKinds
    /\ json_error \in {"unknown", json_error'}
    /\ IF json_error' = "RequestException"
       THEN DormirYContinuar(EsperaRed(intento + 1),
                             Error("JSONDecodeError", 0, intento + 1))
       ELSE /\ outcome' = Raised(Error("ValueError", 0, intento + 1))
            /\ pc' = "done"
            /\ UNCHANGED <<waits, last_error>>

\* lines 327-332 raise a RequestException (connection failure, timeout),
\* handled by lines 355-359
ErrorDeRed(resp) ==
    /\ resp.kind = "neterr"
    /\ Solicitar(resp)
    /\ DormirYContinuar(EsperaRed(intento + 1),
                        Error("RequestException", 0, intento + 1))
    /\ UNCHANGED json_error

\* line 325: range(1, max_retries + 1) has no value after i, with a variant
\* whose loop never ends
RangoAgotadoNunca(i, n) == FALSE

RangoAgotado(i, n) == i >= n

\* lines 361-362: the loop is over; "raise None" is a TypeError
Agotado ==
    /\ pc = "loop"
    /\ RangoAgotado(intento, max_retries)
    /\ outcome' = IF last_error = NoError
                  THEN Raised(Error("TypeError", 0, intento))
                  ELSE Raised(last_error)
    /\ pc' = "done"
    /\ UNCHANGED <<cfg, json_error, arg_max_retries, max_retries, intento,
                   last_error, requests_get, got, waits, params, sent>>

(***************************************************************************)
(* The other two retrying downloads of the repository, run on the same     *)
(* variables; cfg holds the values of the keyword arguments max_retries    *)
(* and backoff of the call.                                                *)
(*   backup:        fetch_with_retries,                                    *)
(*                  backup_original_20251004_050229/licitaciones.py 75-116 *)
(*   licitaciones:  fetch_with_retries, licitaciones.py 281-307; its waits *)
(*                  are floats rounded to two decimals and are recorded in *)
(*                  hundredths of a second.                                *)
(***************************************************************************)
Scripts == {"refactorizado", "backup", "licitaciones"}

\* The default backoff of each signature (2.0, line 75; 1.5, line 281) and 4.5.
ScriptBases(sc) ==
    CASE sc = "backup" -> {<<2, 1>>, <<9, 2>>}
      [] sc = "licitaciones" -> {<<3, 2>>, <<9, 2>>}
      [] OTHER -> Bases

ScriptConfigs(sc) == [MAX_RETRIES : 0..MaxRetries, BACKOFF_FACTOR : ScriptBases(sc)]

\* The signatures: max_retries is used as passed, there is no "or".
LlamarScript ==
    /\ script \in {"backup", "licitaciones"}
    /\ pc = "idle"
    /\ arg_max_retries' = <<cfg.MAX_RETRIES>>
    /\ max_retries' = cfg.MAX_RETRIES
    /\ last_error' = NoError
    /\ pc' = "loop"
    /\ UNCHANGED <<cfg, json_error, intento, requests_get, got, waits, outcome, params, sent>>

\* backup, lines 85, 87, 99, 107, 112: min(60, int(backoff ** attempt))
wait_backup(attempt) == Min(WaitCap, IntPow(cfg.BACKOFF_FACTOR, attempt))

\* backup, lines 82-87: the wait of the 429 branch
wait_429_backup(retry_after, attempt) ==
    IF retry_after.present /\ retry_after.text # <<>> /\ int_str(retry_after.text).ok
    THEN int_str(retry_after.text).value
    ELSE wait_backup(attempt)

\* backup, lines 81-93 and 110-114: status 429.  time.sleep of a negative wait
\* raises ValueError inside the try; "except Exception" records it, sleeps the
\* backoff and the loop goes on.
BackupRespuesta429(resp) ==
    /\ script = "backup"
    /\ resp.kind = "http" /\ resp.status = 429
    /\ Solicitar(resp)
    /\ IF wait_429_backup(resp.retry_after, intento + 1) < 0
       THEN /\ waits' = Append(waits, wait_backup(intento + 1))
            /\ last_error' = Error("ValueError", 0, intento + 1)
       ELSE /\ waits' = Append(waits, wait_429_backup(resp.retry_after, intento + 1))
            /\ last_error' = Error("Exception", 429, intento + 1)
    /\ pc' = "loop"
    /\ UNCHANGED <<outcome, json_error>>

\* backup, lines 94, 96-104: raise_for_status raises HTTPError
BackupRespuestaHTTPError(resp) ==
    /\ script = "backup"
    /\ resp.kind = "http" /\ resp.status # 429
    /\ raise_for_status_raises(resp.status)
    /\ Solicitar(resp)
    /\ last_error' = Error("HTTPError", resp.status, intento + 1)
    /\ IF 500 <= resp.status /\ resp.status < 600
       THEN /\ waits' = Append(waits, wait_backup(intento + 1))
            /\ pc' = "loop"
            /\ UNCHANGED outcome
       ELSE /\ outcome' = Raised(Error("HTTPError", resp.status, intento + 1))
            /\ pc' = "done"
            /\ UNCHANGED waits
    /\ UNCHANGED json_error

\* backup, lines 94-95: return resp.json()
BackupRespuestaJSON(resp) ==
    /\ script = "backup"
    /\ resp.kind = "http" /\ resp.status # 429
    /\ ~raise_for_status_raises(resp.status)
    /\ resp.json
    /\ Solicitar(resp)
    /\ outcome' = Returned(intento + 1)
    /\ pc' = "done"
    /\ UNCHANGED <<waits, last_error, json_error>>

\* backup, line 95 on a body that is not JSON: the error of resp.json() is
\* caught by lines 105-109 (a RequestException) or 110-114 (any other).
BackupRespuestaNoJSON(resp) ==
    /\ script = "backup"
    /\ resp.kind = "http" /\ resp.status # 429
    /\ ~raise_for_status_raises(resp.status)
    /\ ~resp.json
    /\ Solicitar(resp)
    /\ json_error' \in JsonErrorKinds
    /\ json_error \in {"unknown", json_error'}
    /\ last_error' = IF json_error' = "RequestException"
                     THEN Error("JSONDecodeError", 0, intento + 1)
                     ELSE Error("ValueError", 0, intento + 1)
    /\ waits' = Append(waits, wait_backup(intento + 1))
    /\ pc' = "loop"
    /\ UNCHANGED outcome

\* backup, lines 80 and 105-109: requests.get raises a RequestException
BackupErrorDeRed(resp) ==
    /\ script = "backup"
    /\ resp.kind = "neterr"
    /\ Solicitar(resp)
    /\ last_error' = Error("RequestException", 0, intento + 1)
    /\ waits' = Append(waits, wait_backup(intento + 1))
    /\ pc' = "loop"
    /\ UNCHANGED <<outcome, json_error>>

\* backup, lines 115-116: raise last_err
BackupAgotado == script = "backup" /\ Agotado

\* round(x, 2) of x = n / d in hundredths: to nearest, ties to the even
\* hundredth (the powers used are exact binary fractions).
Round2(n, d) ==
    LET h == (100 * n) \div d
        r == (100 * n) % d
    IN IF 2 * r > d \/ (2 * r = d /\ h % 2 = 1) THEN h + 1 ELSE h

\* licitaciones, lines 296 and 303: sleep_s = round(backoff ** i, 2), with i
\* counting from 0 and no cap; in hundredths of a second.
sleep_s(i) == Round2(Pow(cfg.BACKOFF_FACTOR[1], i), Pow(cfg.BACKOFF_FACTOR[2], i))

\* licitaciones, lines 290-291, 293-300: raise_for_status raises HTTPError, for
\* a 429 as for every other 4xx and 5xx; only 5xx is retried.
LicRespuestaHTTPError(resp) ==
    /\ script = "licitaciones"
    /\ resp.kind = "http"
    /\ raise_for_status_raises(resp.status)
    /\ Solicitar(resp)
    /\ last_error' = Error("HTTPError", resp.status, intento + 1)
    /\ IF 500 <= resp.status /\ resp.status < 600
       THEN /\ waits' = Append(waits, sleep_s(intento))
            /\ pc' = "loop"
            /\ UNCHANGED outcome
       ELSE /\ outcome' = Raised(Error("HTTPError", resp.status, intento + 1))
            /\ pc' = "done"
            /\ UNCHANGED waits
    /\ UNCHANGED json_error

\* licitaciones, lines 291-292: return r.json()
LicRespuestaJSON(resp) ==
    /\ script = "licitaciones"
    /\ resp.kind = "http"
    /\ ~raise_for_status_raises(resp.status)
    /\ resp.json
    /\ Solicitar(resp)
    /\ outcome' = Returned(intento + 1)
    /\ pc' = "done"
    /\ UNCHANGED <<waits, last_error, json_error>>

\* licitaciones, lines 292 and 301-306: the error of r.json() is caught by
\* "except Exception"
LicRespuestaNoJSON(resp) ==
    /\ script = "licitaciones"
    /\ resp.kind = "http"
    /\ ~raise_for_status_raises(resp.status)
    /\ ~resp.json
    /\ Solicitar(resp)
    /\ json_error' \in JsonErrorKinds
    /\ json_error \in {"unknown", json_error'}
    /\ last_error' = IF json_error' = "RequestException"
                     THEN Error("JSONDecodeError", 0, intento + 1)
                     ELSE Error("ValueError", 0, intento + 1)
    /\ waits' = Append(waits, sleep_s(intento))
    /\ pc' = "loop"
    /\ UNCHANGED outcome

\* licitaciones, lines 290 and 301-306: requests.get raises
LicErrorDeRed(resp) ==
    /\ script = "licitaciones"
    /\ resp.kind = "neterr"
    /\ Solicitar(resp)
    /\ last_error' = Error("RequestException", 0, intento + 1)
    /\ waits' = Append(waits, sleep_s(intento))
    /\ pc' = "loop"
    /\ UNCHANGED <<outcome, json_error>>

\* licitaciones, line 307: raise last_err
LicAgotado == script = "licitaciones" /\ Agotado

(***************************************************************************)
(* Two invocations of fetch_con_reintentos on the same ProcesadorLicita-   *)
(* ciones.  Everything the method assigns is a local of its frame (lines   *)
(* 321-357); self.config is only read.  One invocation runs on the fetch   *)
(* variables while the frame of the other is kept in calls; Cambiar        *)
(* switches between them at the loop's iteration boundaries.               *)
(***************************************************************************)
\* Bound: largest MAX_RETRIES / max_retries of the two calls.
MaxPairRetries == 2

PairConfigs == [MAX_RETRIES : 1..MaxPairRetries, BACKOFF_FACTOR : {<<2, 1>>}]
PairArgs == {NoneArg} \cup {<<n>> : n \in 1..MaxPairRetries}
PairResponses ==
    {NetworkError, HttpResponse(200, NoHeader, TRUE), HttpResponse(404, NoHeader, FALSE),
     HttpResponse(500, NoHeader, FALSE), HttpResponse(429, Header(<<"3">>), FALSE)}

\* The frame of an invocation that has not started.
MarcoInicial ==
    [pc |-> "idle", arg_max_retries |-> NoneArg, max_retries |-> 0, intento |-> 0,
     last_error |-> NoError, requests_get |-> 0, got |-> <<>>, waits |-> <<>>,
     outcome |-> NoOutcome]

\* The frame of the running invocation.
MarcoActual ==
    [pc |-> pc, arg_max_retries |-> arg_max_retries, max_retries |-> max_retries,
     intento |-> intento, last_error |-> last_error, requests_get |-> requests_get,
     got |-> got, waits |-> waits, outcome |-> outcome]

PairOff == calls = [activa |-> 0, suspendida |-> MarcoInicial]

\* last_error is a local (line 323), so a resumed invocation finds its own;
\* the variant keeps one last_error for both invocations.
UltimoErrorCompartido(marco) == last_error

UltimoErrorDe(marco) == marco.last_error

\* The scheduler suspends the running invocation and resumes the other one.
Cambiar ==
    /\ calls.activa \in {1, 2}
    /\ calls' = [activa |-> 3 - calls.activa, suspendida |-> MarcoActual]
    /\ pc' = calls.suspendida.pc
    /\ arg_max_retries' = calls.suspendida.arg_max_retries
    /\ max_retries' = calls.suspendida.max_retries
    /\ intento' = calls.suspendida.intento
    /\ last_error' = UltimoErrorDe(calls.suspendida)
    /\ requests_get' = calls.suspendida.requests_get
    /\ got' = calls.suspendida.got
    /\ waits' = calls.suspendida.waits
    /\ outcome' = calls.suspendida.outcome
    /\ UNCHANGED <<cfg, json_error, params, sent>>

(***************************************************************************)
(* One run of main: the credential (obtener_ticket, lines 301-317), then   *)
(* procesar_licitaciones (lines 459-482): the evaluation request and the   *)
(* download.                                                               *)
(***************************************************************************)
\* Bound: largest MAX_RETRIES of a run.
MaxRunRetries == 2

\* line 317
TicketPorDefecto == "BB946777-2A2E-4685-B5F5-43B441772C27"

\* The command line: --ticket (absent, empty or given), --fecha (the same) and
\* --estado (one of its choices; "activas" when absent).
CliArgs ==
    [ticket : {PyNone, PyStr(""), PyStr("TICKET-CLI")},
     fecha : {PyNone, PyStr(""), PyStr("04102025")},
     estado : {"activas", "cerradas"}]

\* The module-level config of lines 30-67 and the process environment:
\* CONFIG_ENV_AVAILABLE, config.TICKET (None when config is None; never empty,
\* config_env.py 95-96) and os.environ.get("MERCADO_PUBLICO_TICKET").
Entornos ==
    {[CONFIG_ENV_AVAILABLE |-> a, config_TICKET |-> c, env_TICKET |-> e] :
        a \in BOOLEAN, c \in {PyNone, PyStr("TICKET-CFG")},
        e \in {PyNone, PyStr(""), PyStr("TICKET-ENV")}}
    \ {[CONFIG_ENV_AVAILABLE |-> FALSE, config_TICKET |-> PyStr("TICKET-CFG"), env_TICKET |-> e] :
        e \in {PyNone, PyStr(""), PyStr("TICKET-ENV")}}

RunConfigs == [MAX_RETRIES : 1..MaxRunRetries, BACKOFF_FACTOR : {<<2, 1>>}]

\* What the server answers to the evaluation request and to the download.
EvalResponses ==
    {NetworkError, HttpResponse(200, NoHeader, TRUE), HttpResponse(200, NoHeader, FALSE),
     HttpResponse(503, NoHeader, FALSE)}
RunResponses ==
    {NetworkError, HttpResponse(200, NoHeader, TRUE), HttpResponse(404, NoHeader, FALSE),
     HttpResponse(429, Header(<<"3">>), FALSE)}

\* obtener_ticket, lines 301-317, with a variant that tests the explicit
\* argument with "is not None"
obtener_ticket_no_none(ticket_explicito) ==
    IF ticket_explicito # PyNone THEN ticket_explicito[1]
    ELSE IF entorno.CONFIG_ENV_AVAILABLE /\ Truthy(entorno.config_TICKET)
         THEN entorno.config_TICKET[1]
         ELSE IF Truthy(entorno.env_TICKET) THEN entorno.env_TICKET[1]
              ELSE TicketPorDefecto

obtener_ticket(ticket_explicito) ==
    IF Truthy(ticket_explicito) THEN ticket_explicito[1]
    ELSE IF entorno.CONFIG_ENV_AVAILABLE /\ Truthy(entorno.config_TICKET)
         THEN entorno.config_TICKET[1]
         ELSE IF Truthy(entorno.env_TICKET) THEN entorno.env_TICKET[1]
              ELSE TicketPorDefecto

\* "if x:" on a JSON value: None, False, 0, "", [] and {} are falsy.
py_truthy(x) ==
    CASE x.t = "null" -> FALSE
      [] x.t = "bool" -> x.v
      [] x.t = "num" -> x.v # 0
      [] x.t = "str" -> x.v # ""
      [] x.t = "list" -> x.v # <<>>
      [] OTHER -> DOMAIN x.v # {}

\* JSON bodies of a 200 response: two records in the nested wrapper, a bare
\* list of one record, a single record / a number / null in place of the list,
\* a mapping without listing, and a list holding an element that is not a
\* record.  (No body here makes the parser return a string.)
RunBodies ==
    {JDict("Listado" :> JDict("Licitacion" :> JList(<<Rec1, Rec2>>))),
     JList(<<Rec1>>),
     JDict("Listado" :> JDict("Licitacion" :> Rec1)),
     JDict("Listado" :> JDict("Licitacion" :> JNum(42))),
     JDict("Listado" :> JDict("Licitacion" :> JNull)),
     JDict("Foo" :> EmptyList),
     JList(<<JNum(7), Rec1>>)}

\* The call of evaluar_api: made or not, the response it received and the
\* JSON body of that response (JNull when there is none), the exception that
\* left it ("None" when it returned) and the fields of the
\* ResultadoEvaluacionAPI it returned.
SinEvaluar ==
    [hecha |-> FALSE, respuesta |-> NetworkError, cuerpo |-> JNull, error |-> "None",
     disponible |-> FALSE, total_registros |-> 0]
Evaluado(resp, body, d, n) ==
    [hecha |-> TRUE, respuesta |-> resp, cuerpo |-> body, error |-> "None",
     disponible |-> d, total_registros |-> n]
EvaluacionFallida(resp, body, e) ==
    [hecha |-> TRUE, respuesta |-> resp, cuerpo |-> body, error |-> e,
     disponible |-> FALSE, total_registros |-> 0]

\* How procesar_licitaciones ended: the exception class it raised, or the
\* "sqlite" entry of rutas and estadisticas.total_registros of its result.
SinResultado == [kind |-> "none", error |-> "None", sqlite |-> "", total_registros |-> 0]
RunRaised(e) == [kind |-> "raised", error |-> e, sqlite |-> "", total_registros |-> 0]
RunReturned(ruta, n) == [kind |-> "returned", error |-> "None", sqlite |-> ruta, total_registros |-> n]

RunOff ==
    /\ cli = [ticket |-> PyNone, fecha |-> PyNone, estado |-> "activas"]
    /\ entorno = [CONFIG_ENV_AVAILABLE |-> FALSE, config_TICKET |-> PyNone,
                  env_TICKET |-> PyNone]
    /\ ticket = ""
    /\ evaluacion = SinEvaluar
    /\ rpc = "off"
    /\ archivos = {}
    /\ resultado = SinResultado
    /\ exit_code = -1

InitRun ==
    /\ cli \in CliArgs
    /\ entorno \in Entornos
    /\ ticket = ""
    /\ evaluacion = SinEvaluar
    /\ rpc = "inicio"
    /\ archivos = {}
    /\ resultado = SinResultado
    /\ exit_code = -1

\* main, line 594: ticket = procesador.obtener_ticket(args.ticket)
ObtenerTicket ==
    /\ rpc = "inicio"
    /\ ticket' = obtener_ticket(cli.ticket)
    /\ rpc' = "evaluar"
    /\ UNCHANGED <<cli, entorno, evaluacion, archivos, resultado, exit_code>>
    /\ UNCHANGED fetch_vars

\* evaluar_api's params, lines 169-175, with a variant that sends fecha and
\* estado together
ParamsEvaluacionAmbos(tk, fecha, estado) ==
    IF Truthy(fecha)
    THEN ("ticket" :> tk) @@ ("fecha" :> fecha[1]) @@ ("estado" :> estado)
    ELSE ("ticket" :> tk) @@ ("estado" :> estado)

ParamsEvaluacion(tk, fecha, estado) ==
    IF Truthy(fecha)
    THEN ("ticket" :> tk) @@ ("fecha" :> fecha[1])
    ELSE ("ticket" :> tk) @@ ("estado" :> estado)

\* lines 192-195 on the parsed value lic, which is truthy: licitaciones[0]
\* is a KeyError on a mapping (its keys are strings) and a TypeError on a
\* number or a boolean.
ErrorPrimerElemento(lic) ==
    IF isinstance_list(lic) THEN "None"
    ELSE IF isinstance_dict(lic) THEN "KeyError"
         ELSE "TypeError"

\* evaluar_api, lines 153-243.  A RequestException (234-243), a status other
\* than 200 (224-232) and a body that is not JSON (215-223) give disponible =
\* False; a JSON body is parsed (line 190) and gives disponible = True, with
\* total_registros = len(licitaciones) when licitaciones is truthy (192-205)
\* and 0 otherwise (206-214).  The try of line 167 catches only
\* requests.RequestException, the inner one only ValueError.
ResultadoEvaluacion(resp, body) ==
    IF resp.kind = "neterr" \/ resp.status # 200 \/ ~resp.json
    THEN Evaluado(resp, JNull, FALSE, 0)
    ELSE LET lic == _parsear_licitaciones(body)
         IN IF ~py_truthy(lic) THEN Evaluado(resp, body, TRUE, 0)
            ELSE IF ErrorPrimerElemento(lic) # "None"
                 THEN EvaluacionFallida(resp, body, ErrorPrimerElemento(lic))
                 ELSE Evaluado(resp, body, TRUE, Len(lic.v))

\* line 466: if not evaluacion.disponible (an exception of evaluar_api leaves
\* procesar_licitaciones before that line), with a variant that goes on to
\* the download whatever the evaluation reported
ApiNoDisponibleNunca(ev) == ev.error # "None"

ApiNoDisponible(ev) == ev.error # "None" \/ ~ev.disponible

\* procesar_licitaciones, lines 459-480: the evaluation request.  An exception
\* of evaluar_api leaves procesar_licitaciones too; the run raises when the
\* API is not available (lines 466-467); in both cases main reports the error
\* and returns 1 (lines 618-621).  Otherwise the params of the download are
\* built (lines 476-480).
EvaluarAPI(resp, body) ==
    /\ rpc = "evaluar"
    /\ sent' = Append(sent, ParamsEvaluacion(ticket, cli.fecha, cli.estado))
    /\ evaluacion' = ResultadoEvaluacion(resp, body)
    /\ IF ApiNoDisponible(evaluacion')
       THEN /\ resultado' = RunRaised(IF evaluacion'.error # "None"
                                     THEN evaluacion'.error ELSE "Exception")
            /\ exit_code' = 1
            /\ rpc' = "fin"
            /\ UNCHANGED <<params, pc>>
       ELSE /\ params' = ConstruirParams(ticket, cli.fecha, cli.estado)
            /\ pc' = "idle"
            /\ rpc' = "descargar"
            /\ UNCHANGED <<resultado, exit_code>>
    /\ UNCHANGED <<cli, entorno, ticket, archivos>>
    /\ UNCHANGED <<cfg, json_error, arg_max_retries, max_retries, intento, last_error,
                   requests_get, got, waits, outcome>>

\* line 482: payload = self.fetch_con_reintentos(params), without max_retries
Descargar ==
    /\ rpc = "descargar"
    /\ Llamar(NoneArg)
    /\ UNCHANGED run_vars

\* The CSV files written before an OSError stops guardar_datos, in the order
\* of lines 511-515; all three when none fails.
CSVs == <<"raw", "clean", "negocio">>
EscriturasCSV == {SubSeq(CSVs, 1, n) : n \in 0..Len(CSVs)}
Escritos(s) == {s[i] : i \in 1..Len(s)}

\* lines 488-503 on the parsed value lic, which is truthy: len(licitaciones)
\* is a TypeError on a number or a boolean, pd.DataFrame(licitaciones) a
\* ValueError on a mapping of scalars (the records here hold scalars only),
\* and extraer_campos_negocio(item) an AttributeError on an item without
\* .get.  All of them are raised before line 511.
ErrorProcesamiento(lic) ==
    IF isinstance_list(lic)
    THEN IF \A i \in 1..Len(lic.v) : isinstance_dict(lic.v[i]) THEN "None"
         ELSE "AttributeError"
    ELSE IF isinstance_dict(lic) THEN "ValueError"
         ELSE "TypeError"

\* lines 517-521, with a variant that lets the SQLite error leave the run
ResultadoSQLiteSinCaptura(sqlite_ok, n) ==
    IF sqlite_ok THEN RunReturned("ruta_db", n) ELSE RunRaised("OperationalError")

ResultadoSQLite(sqlite_ok, n) ==
    IF sqlite_ok THEN RunReturned("ruta_db", n) ELSE RunReturned("No disponible", n)

\* line 485, with a variant that lets an empty list through
SinLicitacionesNunca(lic) == FALSE

SinLicitaciones(lic) == ~py_truthy(lic)

\* procesar_licitaciones from the end of the download, lines 482-535: the
\* value fetch_con_reintentos returned is parsed (483), an empty result raises
\* (485-486), the records are processed (488-503), the three CSV files are
\* written (511-515) and the SQLite table (517-521).  body is the JSON the
\* download returned, escritas the CSV files that could be written and
\* sqlite_ok whether guardar_sqlite succeeded.
ResultadoProcesar(body, escritas, sqlite_ok) ==
    LET lic == _parsear_licitaciones(body)
    IN IF outcome.kind = "raised" THEN RunRaised(outcome.err.type)
       ELSE IF SinLicitaciones(lic) THEN RunRaised("Exception")
       ELSE IF ErrorProcesamiento(lic) # "None" THEN RunRaised(ErrorProcesamiento(lic))
       ELSE IF escritas # CSVs THEN RunRaised("OSError")
       ELSE ResultadoSQLite(sqlite_ok, Len(lic.v))

\* The files on disk when procesar_licitaciones ends, with a variant that
\* writes the CSV files whatever happened before line 511
ArchivosProcesarSiempre(body, escritas, sqlite_ok) == Escritos(escritas)

ArchivosProcesar(body, escritas, sqlite_ok) ==
    LET lic == _parsear_licitaciones(body)
    IN IF outcome.kind = "raised" \/ SinLicitaciones(lic) \/ ErrorProcesamiento(lic) # "None"
       THEN {}
       ELSE IF escritas # CSVs THEN Escritos(escritas)
            ELSE Escritos(CSVs) \cup (IF sqlite_ok THEN {"sqlite"} ELSE {})

\* The download is over: the rest of procesar_licitaciones, and main's report
\* and return value (lines 598-622): 1 when procesar_licitaciones raised.
Procesar(body, escritas, sqlite_ok) ==
    /\ rpc = "descargar"
    /\ pc = "done"
    /\ IF outcome.kind = "raised"
       THEN UNCHANGED parser_vars
       ELSE /\ payload' = body
            /\ parsed' = _parsear_licitaciones(body)
            /\ ppc' = "done"
    /\ resultado' = ResultadoProcesar(body, escritas, sqlite_ok)
    /\ archivos' = ArchivosProcesar(body, escritas, sqlite_ok)
    /\ exit_code' = IF resultado'.kind = "raised" THEN 1 ELSE 0
    /\ rpc' = "fin"
    /\ UNCHANGED <<cli, entorno, ticket, evaluacion>>
    /\ UNCHANGED fetch_vars

(***************************************************************************)
(* Specifications                                                          *)
(***************************************************************************)
\* Everything but the parser and the download.
rest_vars == <<script, calls, cli, entorno, ticket, evaluacion, rpc, archivos, resultado,
               exit_code>>
RestOff == script = "refactorizado" /\ PairOff /\ RunOff

InitParse == InitParser /\ FetchOff /\ RestOff

NextParse ==
    \/ Parsear /\ UNCHANGED <<fetch_vars, rest_vars>>
    \/ ParseRunFetch /\ UNCHANGED <<fetch_vars, rest_vars>>

SpecParse == InitParse /\ [][NextParse]_vars

InitFetchOnly == InitFetch /\ ParserOff /\ RestOff

NextFetch ==
    \/ (\E arg \in Args : Llamar(arg)) /\ UNCHANGED <<parser_vars, rest_vars>>
    \/ (\E resp \in Responses : Respuesta429(resp)) /\ UNCHANGED <<parser_vars, rest_vars>>
    \/ (\E resp \in Responses : RespuestaHTTPError(resp)) /\ UNCHANGED <<parser_vars, rest_vars>>
    \/ (\E resp \in Responses : RespuestaJSON(resp)) /\ UNCHANGED <<parser_vars, rest_vars>>
    \/ (\E resp \in Responses : RespuestaNoJSON(resp)) /\ UNCHANGED <<parser_vars, rest_vars>>
    \/ (\E resp \in Responses : ErrorDeRed(resp)) /\ UNCHANGED <<parser_vars, rest_vars>>
    \/ Agotado /\ UNCHANGED <<parser_vars, rest_vars>>

SpecFetch == InitFetchOnly /\ [][NextFetch]_vars

\* The call is one sequential thread: requests.get is given a timeout (line
\* 331) and time.sleep a finite duration, so a step that can be taken is
\* taken.
SpecFetchFair == SpecFetch /\ WF_vars(NextFetch)

\* One call of each of the three retrying downloads; fetch_con_reintentos is
\* called as procesar_licitaciones calls it, without max_retries.
InitScripts ==
    /\ script \in Scripts
    /\ cfg \in ScriptConfigs(script)
    /\ json_error = "unknown"
    /\ pc = "idle"
    /\ arg_max_retries = NoneArg
    /\ max_retries = 0
    /\ intento = 0
    /\ last_error = NoError
    /\ requests_get = 0
    /\ got = <<>>
    /\ waits = <<>>
    /\ outcome = NoOutcome
    /\ params = ParamsDirectos
    /\ sent = <<>>
    /\ ParserOff /\ PairOff /\ RunOff

scripts_frame == <<parser_vars, script, calls, cli, entorno, ticket, evaluacion, rpc,
                   archivos, resultado, exit_code>>

NextScripts ==
    \/ script = "refactorizado" /\ Llamar(NoneArg) /\ UNCHANGED scripts_frame
    \/ script = "refactorizado" /\ (\E resp \in Responses : Respuesta429(resp))
          /\ UNCHANGED scripts_frame
    \/ script = "refactorizado" /\ (\E resp \in Responses : RespuestaHTTPError(resp))
          /\ UNCHANGED scripts_frame
    \/ script = "refactorizado" /\ (\E resp \in Responses : RespuestaJSON(resp))
          /\ UNCHANGED scripts_frame
    \/ script = "refactorizado" /\ (\E resp \in Responses : RespuestaNoJSON(resp))
          /\ UNCHANGED scripts_frame
    \/ script = "refactorizado" /\ (\E resp \in Responses : ErrorDeRed(resp))
          /\ UNCHANGED scripts_frame
    \/ script = "refactorizado" /\ Agotado /\ UNCHANGED scripts_frame
    \/ LlamarScript /\ UNCHANGED scripts_frame
    \/ (\E resp \in Responses : BackupRespuesta429(resp)) /\ UNCHANGED scripts_frame
    \/ (\E resp \in Responses : BackupRespuestaHTTPError(resp)) /\ UNCHANGED scripts_frame
    \/ (\E resp \in Responses : BackupRespuestaJSON(resp)) /\ UNCHANGED scripts_frame
    \/ (\E resp \in Responses : BackupRespuestaNoJSON(resp)) /\ UNCHANGED scripts_frame
    \/ (\E resp \in Responses : BackupErrorDeRed(resp)) /\ UNCHANGED scripts_frame
    \/ BackupAgotado /\ UNCHANGED scripts_frame
    \/ (\E resp \in Responses : LicRespuestaHTTPError(resp)) /\ UNCHANGED scripts_frame
    \/ (\E resp \in Responses : LicRespuestaJSON(resp)) /\ UNCHANGED scripts_frame
    \/ (\E resp \in Responses : LicRespuestaNoJSON(resp)) /\ UNCHANGED scripts_frame
    \/ (\E resp \in Responses : LicErrorDeRed(resp)) /\ UNCHANGED scripts_frame
    \/ LicAgotado /\ UNCHANGED scripts_frame

SpecScripts == InitScripts /\ [][NextScripts]_vars

\* Two calls of fetch_con_reintentos, interleaved in every way.
InitPair ==
    /\ cfg \in PairConfigs
    /\ json_error = "unknown"
    /\ pc = "idle"
    /\ arg_max_retries = NoneArg
    /\ max_retries = 0
    /\ intento = 0
    /\ last_error = NoError
    /\ requests_get = 0
    /\ got = <<>>
    /\ waits = <<>>
    /\ outcome = NoOutcome
    /\ params = ParamsDirectos
    /\ sent = <<>>
    /\ calls = [activa |-> 1, suspendida |-> MarcoInicial]
    /\ script = "refactorizado"
    /\ ParserOff /\ RunOff

pair_frame == <<parser_vars, script, calls, cli, entorno, ticket, evaluacion, rpc,
                archivos, resultado, exit_code>>

NextPair ==
    \/ Cambiar /\ UNCHANGED <<parser_vars, script, run_vars>>
    \/ (\E arg \in PairArgs : Llamar(arg)) /\ UNCHANGED pair_frame
    \/ (\E resp \in PairResponses : Respuesta429(resp)) /\ UNCHANGED pair_frame
    \/ (\E resp \in PairResponses : RespuestaHTTPError(resp)) /\ UNCHANGED pair_frame
    \/ (\E resp \in PairResponses : RespuestaJSON(resp)) /\ UNCHANGED pair_frame
    \/ (\E resp \in PairResponses : ErrorDeRed(resp)) /\ UNCHANGED pair_frame
    \/ Agotado /\ UNCHANGED pair_frame

SpecPair == InitPair /\ [][NextPair]_vars

\* One run of main, from the credential to its return value.
InitRunOnly ==
    /\ InitRun
    /\ cfg \in RunConfigs
    /\ json_error = "unknown"
    /\ pc = "off"
    /\ arg_max_retries = NoneArg
    /\ max_retries = 0
    /\ intento = 0
    /\ last_error = NoError
    /\ requests_get = 0
    /\ got = <<>>
    /\ waits = <<>>
    /\ outcome = NoOutcome
    /\ params = NoParams
    /\ sent = <<>>
    /\ script = "refactorizado"
    /\ ParserOff /\ PairOff

run_frame == <<parser_vars, script, calls>>

NextRun ==
    \/ ObtenerTicket /\ UNCHANGED run_frame
    \/ (\E resp \in EvalResponses, body \in RunBodies : EvaluarAPI(resp, body))
          /\ UNCHANGED run_frame
    \/ Descargar /\ UNCHANGED run_frame
    \/ (\E body \in RunBodies, escritas \in EscriturasCSV, sqlite_ok \in BOOLEAN :
            Procesar(body, escritas, sqlite_ok))
          /\ UNCHANGED <<script, calls>>
    \/ (\E resp \in RunResponses : Respuesta429(resp)) /\ UNCHANGED <<run_frame, run_vars>>
    \/ (\E resp \in RunResponses : RespuestaHTTPError(resp)) /\ UNCHANGED <<run_frame, run_vars>>
    \/ (\E resp \in RunResponses : RespuestaJSON(resp)) /\ UNCHANGED <<run_frame, run_vars>>
    \/ (\E resp \in RunResponses : ErrorDeRed(resp)) /\ UNCHANGED <<run_frame, run_vars>>
    \/ Agotado /\ UNCHANGED <<run_frame, run_vars>>

SpecRun == InitRunOnly /\ [][NextRun]_vars

(***************************************************************************)
(* Properties of the parser, checked under SpecParse.  The shapes are      *)
(* stated here on the payload itself, apart from the parser's conditions.  *)
(***************************************************************************)
HasKey(p, k) == p.t = "dict" /\ k \in DOMAIN p.v
IsListValue(x) == x.t = "list"

\* {"Listado": {..., "Licitacion": X, ...}, ...}
ShapeNested(p) ==
    /\ HasKey(p, "Listado")
    /\ HasKey(p.v["Listado"], "Licitacion")

\* {"Listado": [...], ...}
ShapeListadoList(p) == HasKey(p, "Listado") /\ IsListValue(p.v["Listado"])

\* {K: [...]} and nothing else
ShapeOnlyKey(p, k) ==
    /\ p.t = "dict"
    /\ DOMAIN p.v = {k}
    /\ IsListValue(p.v[k])

\* None of the recognized shapes: not a list, and if a mapping then without a
\* usable "Listado" and without a list under "Licitacion" or "Resultados".
ShapeNone(p) ==
    /\ ~IsListValue(p)
    /\ ~ShapeNested(p)
    /\ ~ShapeListadoList(p)
    /\ ~(HasKey(p, "Licitacion") /\ IsListValue(p.v["Licitacion"]))
    /\ ~(HasKey(p, "Resultados") /\ IsListValue(p.v["Resultados"]))

\* C1: for every JSON payload the parser returns a list (possibly empty).
C1_ParserReturnsList == ppc = "done" => IsListValue(parsed)

C3_ListadoListReturnsX ==
    (ppc = "done" /\ ShapeListadoList(payload)) => parsed = payload.v["Listado"]

\* C3 witness: a two-element list with distinct elements came back in order.
C3_Witness ==
    /\ ppc = "done"
    /\ ShapeListadoList(payload)
    /\ payload.v["Listado"] = JList(<<Rec2, Rec1>>)
    /\ parsed.v[1] = Rec2 /\ parsed.v[2] = Rec1

\* C4: a payload that is itself a list is returned unchanged, whatever its
\* elements are.
C4_BareListUnchanged ==
    (ppc = "done" /\ IsListValue(payload)) => parsed = payload

\* C4 witness: a list holding an element that is not a record came back.
C4_Witness ==
    /\ ppc = "done"
    /\ payload = JList(<<JNum(7), Rec1>>)
    /\ parsed = JList(<<JNum(7), Rec1>>)

\* C5: for every list X and K in {"Licitacion", "Resultados"}, the mapping
\* {K: X} is parsed to exactly X.
C5_FlatKeyReturnsX ==
    \A k \in {"Licitacion", "Resultados"} :
        (ppc = "done" /\ ShapeOnlyKey(payload, k)) => parsed = payload.v[k]

\* C5 witness: {"Resultados": [Rec2, Rec1]} gave [Rec2, Rec1].
C5_Witness ==
    /\ ppc = "done"
    /\ ShapeOnlyKey(payload, "Resultados")
    /\ parsed = JList(<<Rec2, Rec1>>)

\* C6: a payload matching none of the recognized shapes is parsed to the
\* empty list.
C6_UnrecognizedGivesEmpty ==
    (ppc = "done" /\ ShapeNone(payload)) => parsed = EmptyList

\* C6 witness: a mapping whose "Licitacion" and "Resultados" are not lists
\* gave the empty list.
C6_Witness ==
    /\ ppc = "done"
    /\ HasKey(payload, "Licitacion") /\ ~IsListValue(payload.v["Licitacion"])
    /\ HasKey(payload, "Resultados") /\ ~IsListValue(payload.v["Resultados"])
    /\ ~HasKey(payload, "Listado")
    /\ parsed = EmptyList

(***************************************************************************)
(* Properties of fetch_con_reintentos, checked under SpecFetch.  The       *)
(* classes of server responses are stated here on the responses received.  *)
(***************************************************************************)
Is5xx(r) == r.kind = "http" /\ r.status >= 500 /\ r.status <= 599
Is429(r) == r.kind = "http" /\ r.status = 429
Is2xx(r) == r.kind = "http" /\ r.status >= 200 /\ r.status <= 299

\* A retryable failure: 5xx, 429 or a network error.
IsRetryableFailure(r) == r.kind = "neterr" \/ Is429(r) \/ Is5xx(r)

\* A 4xx status other than 429.
IsClientError(r) ==
    r.kind = "http" /\ r.status >= 400 /\ r.status <= 499 /\ r.status # 429

\* Any status that is not 2xx, not 429 and not 5xx.
IsOtherNon2xx(r) == r.kind = "http" /\ ~Is2xx(r) /\ ~Is429(r) /\ ~Is5xx(r)

\* The call failed at attempt k with the HTTP error of that response, with no
\* wait for it and no request after it.
FailedAtOnceAt(k) ==
    /\ k = Len(got)
    /\ pc = "done"
    /\ outcome = Raised(Error("HTTPError", got[k].status, k))
    /\ requests_get = k
    /\ Len(waits) = k - 1

\* C7: called with max_retries = N >= 1, if every attempt ends in a retryable
\* failure, the call issues exactly N requests and then fails; never fewer,
\* never an (N+1)-th.
C7_ExactlyNRequests ==
    (arg_max_retries # NoneArg /\ arg_max_retries[1] >= 1)
        => /\ requests_get <= arg_max_retries[1]
           /\ (pc = "done" /\ \A k \in 1..Len(got) : IsRetryableFailure(got[k]))
                 => (requests_get = arg_max_retries[1] /\ outcome.kind = "raised")

\* C8 as stated: any status that is not 2xx, 429 or 5xx makes the call fail at
\* once with that error, without a wait or a further request.
C8_OtherNon2xxFailsAtOnce ==
    \A k \in 1..Len(got) : IsOtherNon2xx(got[k]) => FailedAtOnceAt(k)

\* C8 (amended): a 4xx status other than 429 makes the call fail at once with
\* that HTTP error: no wait is performed for it and no further request is
\* issued; a 404 on the first attempt yields exactly one request.
C8_ClientErrorFailsAtOnce ==
    \A k \in 1..Len(got) : IsClientError(got[k]) => FailedAtOnceAt(k)

\* C8 witness: a 404 on the first of three allowed attempts ended the call.
C8_Witness ==
    /\ pc = "done"
    /\ max_retries = 3
    /\ Len(got) = 1 /\ got[1].status = 404
    /\ requests_get = 1 /\ waits = <<>>
    /\ outcome.kind = "raised" /\ outcome.err.code = 404

\* The responses [429 with Retry-After: 3, 500, 200 with a JSON body].
Is429_500_200 ==
    /\ Len(got) = 3
    /\ Is429(got[1]) /\ got[1].retry_after = Header(<<"3">>)
    /\ got[2].kind = "http" /\ got[2].status = 500
    /\ got[3].kind = "http" /\ got[3].status = 200 /\ got[3].json

\* Attempt k received a 2xx response with a JSON body after k-1 retryable
\* failures: the call returned that body after k requests and k-1 waits and
\* issued no request after it.
ReturnedAt(k) ==
    /\ k = Len(got)
    /\ pc = "done"
    /\ outcome = Returned(k)
    /\ requests_get = k
    /\ Len(waits) = k - 1

SuccessAfterRetryable(k) ==
    /\ Is2xx(got[k]) /\ got[k].json
    /\ \A j \in 1..(k - 1) : IsRetryableFailure(got[j])

\* C9 as stated: ... and for [429 with Retry-After 3, 500, 200] the waits are
\* 3 and min(60, backoffBase^2), the exact power of the base.
C9_SuccessAfterRetries ==
    \A k \in 1..Len(got) :
        SuccessAfterRetryable(k)
            => /\ ReturnedAt(k)
               /\ Is429_500_200
                    => /\ waits[1] = 3
                       /\ waits[2] * cfg.BACKOFF_FACTOR[2] * cfg.BACKOFF_FACTOR[2]
                            = Min(WaitCap * cfg.BACKOFF_FACTOR[2] * cfg.BACKOFF_FACTOR[2],
                                  cfg.BACKOFF_FACTOR[1] * cfg.BACKOFF_FACTOR[1])

\* C9 (amended): if the first k-1 attempts end in retryable failures and
\* attempt k <= max_retries receives a 2xx response with a JSON body, the call
\* returns that body after exactly k requests and k-1 waits and issues no
\* request after it; for [429 with Retry-After 3, 500, 200] the waits are 3 and
\* min(60, backoffBase^2 truncated to an integer).
C9_SuccessAfterRetriesTruncated ==
    \A k \in 1..Len(got) :
        SuccessAfterRetryable(k)
            => /\ ReturnedAt(k)
               /\ Is429_500_200
                    => waits = <<3, Min(WaitCap,
                                        (cfg.BACKOFF_FACTOR[1] * cfg.BACKOFF_FACTOR[1])
                                            \div (cfg.BACKOFF_FACTOR[2] * cfg.BACKOFF_FACTOR[2]))>>

\* C9 witness: [429 with Retry-After 3, 500, 200] under base 4.5 returned the
\* third body after waits of 3 and 20 seconds.
C9_Witness ==
    /\ pc = "done"
    /\ Is429_500_200
    /\ cfg.BACKOFF_FACTOR = <<9, 2>>
    /\ outcome = Returned(3)
    /\ waits = <<3, 20>>

\* C10: a 429 whose Retry-After is present and parses as an integer h makes
\* the call wait exactly h seconds, whatever the attempt and the base.
C10_WaitsHintSeconds ==
    \A k \in 1..Len(got) :
        (Is429(got[k]) /\ got[k].retry_after.present
                       /\ int_str(got[k].retry_after.text).ok)
            => /\ Len(waits) >= k
               /\ waits[k] = int_str(got[k].retry_after.text).value

\* A 429 whose rate-limit header is absent or is not an integer.
NoUsableHint(r) ==
    Is429(r) /\ ~(r.retry_after.present /\ int_str(r.retry_after.text).ok)

\* w = min(60, b^a), the exact power of the base b = <<numerator, denominator>>.
IsExactBackoff(w, b, a) ==
    w * Pow(b[2], a) = Min(WaitCap * Pow(b[2], a), Pow(b[1], a))

\* min(60, b^a truncated to an integer)
TruncatedBackoff(b, a) == Min(WaitCap, Pow(b[1], a) \div Pow(b[2], a))

\* The call did not end at attempt k.
NotEndedAt(k) == ~(pc = "done" /\ Len(got) = k)

\* C11 as stated: on a 429 whose header is absent or not an integer, the call
\* does not fail and does not wait 0 seconds: it waits min(60, backoffBase^attempt)
\* seconds and then retries.
C11_FallbackWaitsExactPower ==
    \A k \in 1..Len(got) :
        NoUsableHint(got[k])
            => /\ Len(waits) >= k
               /\ waits[k] # 0
               /\ IsExactBackoff(waits[k], cfg.BACKOFF_FACTOR, k)
               /\ NotEndedAt(k)

\* C11 (amended): on a 429 whose header is absent or not an integer, the call
\* does not fail on the header: it waits min(60, backoffBase^attempt truncated
\* to an integer) seconds, which is at least 1 when backoffBase >= 1, and,
\* when attempts remain, goes on to the next request.
C11_FallbackWaitsTruncatedPower ==
    \A k \in 1..Len(got) :
        NoUsableHint(got[k])
            => /\ Len(waits) >= k
               /\ waits[k] = TruncatedBackoff(cfg.BACKOFF_FACTOR, k)
               /\ (cfg.BACKOFF_FACTOR[1] >= cfg.BACKOFF_FACTOR[2] => waits[k] >= 1)
               /\ (k < max_retries => NotEndedAt(k))

\* C11 witness: a 429 with a date-like header on attempt 2 under base 4.5 was
\* followed by a wait of 20 seconds and a third request.
C11_Witness ==
    /\ Len(got) = 3
    /\ got[2] = HttpResponse(429, Header(<<"W", "e", "d">>), FALSE)
    /\ cfg.BACKOFF_FACTOR = <<9, 2>>
    /\ waits[2] = 20
    /\ requests_get = 3

\* A failed attempt without a rate-limit hint: a 5xx, a network error, or a
\* 429 without usable hint.
FailedWithoutHint(r) == Is5xx(r) \/ r.kind = "neterr" \/ NoUsableHint(r)

\* C12 as stated: the wait after a failed attempt a without a rate-limit hint
\* equals min(60, backoffBase^a), the exact power, whichever of the three
\* failures it was.
C12_WaitIsExactPower ==
    \A a \in 1..Len(got) :
        FailedWithoutHint(got[a])
            => /\ Len(waits) >= a
               /\ IsExactBackoff(waits[a], cfg.BACKOFF_FACTOR, a)

\* C12 (amended): the wait after a failed attempt a without a rate-limit hint
\* equals min(60, backoffBase^a truncated to an integer), and this value is the
\* same whether the failure was a 5xx, a network error or a 429 without
\* usable hint.
C12_WaitIsTruncatedPower ==
    \A a \in 1..Len(got) :
        FailedWithoutHint(got[a])
            => /\ Len(waits) >= a
               /\ waits[a] = TruncatedBackoff(cfg.BACKOFF_FACTOR, a)

\* C12 witness: a network error, a 500 and a 429 without header under base 4.5
\* were followed by waits of 4, 20 and 60 seconds.
C12_Witness ==
    /\ Len(got) = 3
    /\ got[1] = NetworkError
    /\ got[2] = HttpResponse(500, NoHeader, FALSE)
    /\ got[3] = HttpResponse(429, NoHeader, FALSE)
    /\ cfg.BACKOFF_FACTOR = <<9, 2>>
    /\ waits = <<4, 20, 60>>

\* The call failed because the retry budget is exhausted: all max_retries >= 1
\* attempts were made, each was waited on, and the call raised.
BudgetExhausted ==
    /\ pc = "done"
    /\ outcome.kind = "raised"
    /\ max_retries >= 1
    /\ Len(got) = max_retries
    /\ Len(waits) = max_retries

\* The error attempt k records for the failure r.
ErrorRecordedFor(r, k) ==
    CASE Is429(r) -> Error("Exception", 429, k)
      [] Is5xx(r) -> Error("HTTPError", r.status, k)
      [] r.kind = "neterr" -> Error("RequestException", 0, k)
      [] OTHER -> Error("JSONDecodeError", 0, k)

\* C15: when the call fails because the retry budget is exhausted, the error
\* raised is the one recorded for the final attempt, whatever failures the
\* earlier attempts ended in; never an earlier attempt's error.
C15_RaisesLastError ==
    BudgetExhausted
        => /\ outcome.err = ErrorRecordedFor(got[max_retries], max_retries)
           /\ \A k \in 1..(max_retries - 1) : outcome.err # ErrorRecordedFor(got[k], k)

\* C15 witness: after a 429, a 500 and a network error the call raised the
\* network error of the third attempt.
C15_Witness ==
    /\ BudgetExhausted
    /\ max_retries = 3
    /\ Is429(got[1]) /\ Is5xx(got[2]) /\ got[3] = NetworkError
    /\ outcome = Raised(Error("RequestException", 0, 3))

\* C16: for every max_retries value passed by the caller and every sequence of
\* responses, the attempt counter stays within 1..max_retries: the call never
\* issues more requests than the max_retries it was called with.
C16_AtMostArgRequests ==
    (pc # "idle" /\ arg_max_retries # NoneArg)
        => /\ intento <= arg_max_retries[1]
           /\ requests_get <= arg_max_retries[1]

RECURSIVE SumSeq(_)
SumSeq(s) == IF s = <<>> THEN 0 ELSE s[1] + SumSeq(Tail(s))

\* A 429 whose header parses as an integer.
HasHint(r) == Is429(r) /\ r.retry_after.present /\ int_str(r.retry_after.text).ok

\* The longest wait the failure r can cause: its hint, or the cap of 60 s.
WaitBound(r) == IF HasHint(r) THEN int_str(r.retry_after.text).value ELSE 60

\* The sum of WaitBound over the first n responses received.
RECURSIVE SumBounds(_)
SumBounds(n) == IF n = 0 THEN 0 ELSE SumBounds(n - 1) + WaitBound(got[n])

EndedReturningBody == outcome.kind = "returned"

EndedInClientError ==
    /\ outcome.kind = "raised"
    /\ Len(got) >= 1
    /\ IsClientError(got[Len(got)])
    /\ outcome.err = Error("HTTPError", got[Len(got)].status, Len(got))

EndedBudgetSpent ==
    /\ outcome.kind = "raised"
    /\ Len(got) = max_retries
    /\ Len(waits) = max_retries

\* C14: every call ends in exactly one of three outcomes: it returns a JSON
\* body, it fails with a client error (4xx other than 429), or it fails after
\* the retry budget is spent; a transient failure (429, 5xx, network error) on
\* an attempt k < max_retries never ends the call.
C14_ThreeOutcomes ==
    /\ pc = "done"
          => \/ EndedReturningBody /\ ~EndedInClientError /\ ~EndedBudgetSpent
             \/ ~EndedReturningBody /\ EndedInClientError /\ ~EndedBudgetSpent
             \/ ~EndedReturningBody /\ ~EndedInClientError /\ EndedBudgetSpent
    /\ \A k \in 1..Len(got) :
          (k < max_retries /\ IsRetryableFailure(got[k])) => NotEndedAt(k)

(***************************************************************************)
(* Properties of the three retrying downloads, checked under SpecScripts.  *)
(***************************************************************************)
\* C13: in every retrying download of the repository (fetch_con_reintentos,
\* fetch_with_retries of the backup script and of licitaciones.py), a 429 on
\* an attempt k < max_retries is transient: the call does not fail on it and
\* a further request follows, so the call never ends at that attempt.
C13_RateLimitIsTransient ==
    \A sc \in Scripts :
        script = sc
            => \A k \in 1..Len(got) :
                  (Is429(got[k]) /\ k < max_retries)
                      => /\ NotEndedAt(k)
                         /\ (pc = "done" => requests_get > k)

(***************************************************************************)
(* Properties of two interleaved calls, checked under SpecPair.  What a    *)
(* call may depend on is stated here on its own frame m: its argument and  *)
(* the responses it received itself.                                       *)
(***************************************************************************)
\* The wait the failure r of attempt k causes.
OwnWait(r, k) ==
    IF HasHint(r) THEN int_str(r.retry_after.text).value
    ELSE TruncatedBackoff(cfg.BACKOFF_FACTOR, k)

\* The error the call holds after its responses up to the n-th.
RECURSIVE OwnLastError(_, _)
OwnLastError(m, n) ==
    IF n = 0 THEN NoError
    ELSE IF IsRetryableFailure(m.got[n]) THEN ErrorRecordedFor(m.got[n], n)
         ELSE IF IsClientError(m.got[n]) THEN Error("HTTPError", m.got[n].status, n)
              ELSE OwnLastError(m, n - 1)

\* Its budget: the argument, or MAX_RETRIES when called without one.
OwnBudget(m) ==
    IF m.arg_max_retries = NoneArg THEN cfg.MAX_RETRIES ELSE m.arg_max_retries[1]

\* How the call ended, from its own responses alone.
OwnOutcome(m) ==
    LET n == Len(m.got)
    IN IF n >= 1 /\ Is2xx(m.got[n]) THEN Returned(n)
       ELSE IF n >= 1 /\ IsClientError(m.got[n]) THEN Raised(Error("HTTPError", m.got[n].status, n))
            ELSE IF n = OwnBudget(m) THEN Raised(OwnLastError(m, n))
                 ELSE NoOutcome

\* The frame m is what the call's own argument and responses make it.
DependsOnlyOnOwn(m) ==
    /\ m.intento = Len(m.got)
    /\ m.requests_get = Len(m.got)
    /\ m.pc # "idle" => m.max_retries = OwnBudget(m) /\ Len(m.got) <= OwnBudget(m)
    /\ Len(m.waits) = Cardinality({k \in 1..Len(m.got) : IsRetryableFailure(m.got[k])})
    /\ \A k \in 1..Len(m.waits) : m.waits[k] = OwnWait(m.got[k], k)
    /\ m.last_error = OwnLastError(m, Len(m.got))
    /\ m.outcome = IF m.pc = "done" THEN OwnOutcome(m) ELSE NoOutcome

\* C18: two invocations, one after the other or interleaved, share no retry
\* state: the attempt counter, the last error, the number of attempts, the
\* waits and the outcome of each depend only on its own argument and its own
\* responses.
C18_CallsAreIndependent ==
    calls.activa \in {1, 2}
        => DependsOnlyOnOwn(MarcoActual) /\ DependsOnlyOnOwn(calls.suspendida)

\* C18 witness: one call, suspended after a 429 and a network error, holds
\* the network error of its second attempt and its waits of 3 and 4 seconds,
\* while the other, with a budget of 1, has failed with its own 500.
C18_Witness ==
    /\ calls.activa = 2
    /\ pc = "done" /\ got = <<HttpResponse(500, NoHeader, FALSE)>>
    /\ max_retries = 1
    /\ outcome = Raised(Error("HTTPError", 500, 1))
    /\ calls.suspendida.pc = "loop"
    /\ calls.suspendida.max_retries = 2
    /\ calls.suspendida.got = <<HttpResponse(429, Header(<<"3">>), FALSE), NetworkError>>
    /\ calls.suspendida.last_error = Error("RequestException", 0, 2)
    /\ calls.suspendida.waits = <<3, 4>>

(***************************************************************************)
(* Properties of a run, checked under SpecRun.                             *)
(***************************************************************************)
\* A date was supplied on the command line.
DateSupplied == cli.fecha # PyNone /\ cli.fecha # PyStr("")

\* The request q carries the ticket and exactly one of fecha / estado: the
\* date when one was supplied, otherwise the estado.
WellFormedQuery(q) ==
    /\ "ticket" \in DOMAIN q /\ q["ticket"] = ticket
    /\ ("fecha" \in DOMAIN q) # ("estado" \in DOMAIN q)
    /\ IF DateSupplied
       THEN "fecha" \in DOMAIN q /\ q["fecha"] = cli.fecha[1]
       ELSE "estado" \in DOMAIN q /\ q["estado"] = cli.estado

\* C19: every HTTP request of one run of procesar_licitaciones (the
\* evaluation request and every download attempt) carries the ticket and
\* exactly one of fecha / estado, fecha when a date was supplied and estado
\* otherwise; the parameters do not change between retries.
C19_EveryRequestWellFormed ==
    /\ Len(sent) = (IF evaluacion.hecha THEN 1 ELSE 0) + requests_get
    /\ \A i \in 1..Len(sent) : WellFormedQuery(sent[i])
    /\ \A i, j \in 1..Len(sent) : sent[i] = sent[j]

\* C19 witness: with a date supplied, the evaluation request and two download
\* attempts all carried the ticket and that date.
C19_Witness ==
    /\ DateSupplied
    /\ evaluacion.hecha
    /\ requests_get = 2
    /\ Len(sent) = 3
    /\ sent[3] = ("ticket" :> ticket) @@ ("fecha" :> "04102025")
    /\ sent[1] = sent[3]

\* The explicit argument, and the MERCADO_PUBLICO_TICKET value the loaded
\* configuration or, failing that, the environment holds.
ExplicitGiven == cli.ticket # PyNone /\ cli.ticket # PyStr("")
ConfigHasTicket == entorno.CONFIG_ENV_AVAILABLE /\ entorno.config_TICKET # PyNone
EnvHasTicket == entorno.env_TICKET # PyNone /\ entorno.env_TICKET # PyStr("")

\* C20: obtener_ticket resolves the credential by a fixed priority: a
\* non-empty explicit argument always wins; otherwise the
\* MERCADO_PUBLICO_TICKET value of the configuration or, failing that, of the
\* environment, when set; otherwise the hardcoded default; the result is never
\* empty.
C20_TicketPriority ==
    rpc \notin {"off", "inicio"}
        => /\ ticket # ""
           /\ ticket = IF ExplicitGiven THEN cli.ticket[1]
                       ELSE IF ConfigHasTicket THEN entorno.config_TICKET[1]
                            ELSE IF EnvHasTicket THEN entorno.env_TICKET[1]
                                 ELSE "BB946777-2A2E-4685-B5F5-43B441772C27"

\* C20 witness: an empty explicit argument and no loaded configuration: the
\* environment variable was used.
C20_Witness ==
    /\ rpc = "evaluar"
    /\ cli.ticket = PyStr("")
    /\ entorno.config_TICKET = PyNone
    /\ entorno.env_TICKET = PyStr("TICKET-ENV")
    /\ ticket = "TICKET-ENV"

(***************************************************************************)
(* Precedence of the parser's shapes, checked under SpecParse.             *)
(***************************************************************************)
\* A list under the flat key k.
FlatList(p, k) == HasKey(p, k) /\ IsListValue(p.v[k])

\* A usable "Listado": a mapping holding "Licitacion", or a list.
UsableListado(p) == ShapeNested(p) \/ ShapeListadoList(p)

\* What a usable "Listado" yields.
ListadoResult(p) ==
    IF ShapeNested(p) THEN p.v["Listado"].v["Licitacion"] ELSE p.v["Listado"]

\* C21: when a mapping matches several shapes at once the precedence is the
\* "Listado" wrapper (nested or list), then the flat "Licitacion" list, then
\* the "Resultados" list: a usable "Listado" wins over both flat keys and a
\* list under "Licitacion" wins over "Resultados".
C21_ShapePrecedence ==
    (ppc = "done" /\ payload.t = "dict")
        => /\ UsableListado(payload) => parsed = ListadoResult(payload)
           /\ (~UsableListado(payload) /\ FlatList(payload, "Licitacion"))
                 => parsed = payload.v["Licitacion"]

\* C21 witness: a payload with a list under each of "Listado", "Licitacion"
\* and "Resultados", all three different, gave the "Listado" list.
C21_Witness ==
    /\ ppc = "done"
    /\ ShapeListadoList(payload)
    /\ FlatList(payload, "Licitacion") /\ FlatList(payload, "Resultados")
    /\ payload.v["Listado"] # payload.v["Licitacion"]
    /\ payload.v["Listado"] # payload.v["Resultados"]
    /\ payload.v["Licitacion"] # payload.v["Resultados"]
    /\ parsed = payload.v["Listado"]

\* A mapping with the key "Listado" whose value is neither a mapping holding
\* "Licitacion" nor a list.
UnusableListado(p) == HasKey(p, "Listado") /\ ~UsableListado(p)

\* C22 as stated: with an unusable "Listado" the flat keys are not consulted
\* and the parser returns the empty list, even if the payload also has a list
\* under "Licitacion" or "Resultados".
C22_UnusableListadoGivesEmpty ==
    (ppc = "done" /\ UnusableListado(payload)) => parsed = EmptyList

\* C22 (amended): with an unusable "Listado" the parser goes on to the flat
\* keys: it returns the list under "Licitacion" if there is one, else the list
\* under "Resultados" if there is one, and the empty list only when neither
\* is a list.
C22_UnusableListadoFallsThrough ==
    (ppc = "done" /\ UnusableListado(payload))
        => parsed = IF FlatList(payload, "Licitacion") THEN payload.v["Licitacion"]
                    ELSE IF FlatList(payload, "Resultados") THEN payload.v["Resultados"]
                         ELSE EmptyList

\* C22 witness: {"Listado": 42, "Resultados": [Rec2]} gave [Rec2].
C22_Witness ==
    /\ ppc = "done"
    /\ HasKey(payload, "Listado") /\ payload.v["Listado"] = JNum(42)
    /\ ~HasKey(payload, "Licitacion")
    /\ parsed = JList(<<Rec2>>)

(***************************************************************************)
(* Waits and termination of the download.                                  *)
(***************************************************************************)
\* C23: waits happen only between attempts: every wait is followed by a
\* further request, so a call (of fetch_con_reintentos or of the backup
\* script's fetch_with_retries) whose budget of N attempts is exhausted has
\* made exactly N - 1 waits and fails right after the N-th failure.
C23_WaitsOnlyBetweenAttempts ==
    (script \in {"refactorizado", "backup"} /\ pc = "done" /\ requests_get >= 1)
        => /\ Len(waits) <= requests_get - 1
           /\ (outcome.kind = "raised" /\ requests_get = max_retries
                 /\ IsRetryableFailure(got[max_retries]))
                 => Len(waits) = max_retries - 1

(***************************************************************************)
(* Properties of a whole run, checked under SpecRun.  requests_get counts  *)
(* the requests of the download only; the request of the evaluation is the *)
(* first entry of sent.                                                     *)
(***************************************************************************)
DownloadStarted == pc \in {"loop", "done"} \/ requests_get > 0 \/ Len(sent) > 1

ReportedAvailable ==
    evaluacion.hecha /\ evaluacion.error = "None" /\ evaluacion.disponible

ReportedUnavailable ==
    evaluacion.hecha /\ evaluacion.error = "None" /\ ~evaluacion.disponible

\* C24: the download is started only after evaluar_api returned disponible =
\* True; when the evaluation reports the API unavailable the run raises, no
\* download request is issued and no file is written.
C24_EvaluationPrecedesDownload ==
    /\ DownloadStarted => ReportedAvailable
    /\ ReportedUnavailable =>
           /\ resultado.kind = "raised"
           /\ ~DownloadStarted
           /\ archivos = {}

\* C24 witness: a 503 at the evaluation ended the run with one request sent.
C24_Witness ==
    /\ ReportedUnavailable
    /\ evaluacion.respuesta = HttpResponse(503, NoHeader, FALSE)
    /\ rpc = "fin"
    /\ resultado.kind = "raised"
    /\ Len(sent) = 1

FetchFailed == pc = "done" /\ outcome.kind = "raised"

\* C25: when the download ends in an error the run is aborted with no partial
\* output: no CSV file and no SQLite table exists during or after the run,
\* and once main has ended procesar_licitaciones has raised and the exit
\* code is 1.
C25_FatalFetchAbortsRun ==
    FetchFailed =>
        /\ archivos = {}
        /\ rpc = "fin" => (resultado.kind = "raised" /\ exit_code = 1)

\* C25 witness: the download ended on a 404 and main returned 1.
C25_Witness ==
    /\ FetchFailed
    /\ got[Len(got)] = HttpResponse(404, NoHeader, FALSE)
    /\ rpc = "fin"
    /\ exit_code = 1
    /\ archivos = {}

ParsesAsJSON(resp) == resp.kind = "http" /\ resp.status = 200 /\ resp.json

\* C26: evaluar_api never raises; disponible is True exactly when the status
\* is 200 and the body parses as JSON, and total_registros is 0 whenever
\* disponible is False.
C26_EvaluarApiIsTotal ==
    evaluacion.hecha =>
        /\ evaluacion.error = "None"
        /\ evaluacion.disponible <=> ParsesAsJSON(evaluacion.respuesta)
        /\ ~evaluacion.disponible => evaluacion.total_registros = 0

RecordCount(x) == IF x.t = "list" THEN Len(x.v) ELSE 0

\* C29: output is written only when the parsed download holds at least one
\* record: when the parser yields the empty list the run raises with no file
\* written, and when the run succeeds total_registros is the number of parsed
\* records.
C29_OutputOnlyWithRecords ==
    /\ archivos # {} => (ppc = "done" /\ RecordCount(parsed) >= 1)
    /\ (rpc = "fin" /\ ppc = "done" /\ parsed = EmptyList) =>
           (resultado.kind = "raised" /\ archivos = {})
    /\ resultado.kind = "returned" =>
           /\ ppc = "done"
           /\ parsed.t = "list"
           /\ resultado.total_registros = RecordCount(parsed)

\* C29 witness: two records were downloaded, the four outputs were written
\* and the run reported two records.
C29_Witness ==
    /\ rpc = "fin"
    /\ parsed = JList(<<Rec1, Rec2>>)
    /\ archivos = {"raw", "clean", "negocio", "sqlite"}
    /\ resultado.kind = "returned"
    /\ resultado.total_registros = 2

\* The three CSV files exist and the SQLite table does not: guardar_sqlite
\* failed after the last guardar_datos.
SQLiteStepFailed == rpc = "fin" /\ archivos = {"raw", "clean", "negocio"}

\* C30: a failure of the SQLite step is absorbed: the three CSV files are
\* written before it, the run returns normally (exit code 0) and the sqlite
\* entry of its result is "No disponible"; a run that returned has its three
\* CSV files whether or not the table was written.
C30_SQLiteFailureAbsorbed ==
    /\ SQLiteStepFailed =>
           /\ resultado.kind = "returned"
           /\ resultado.sqlite = "No disponible"
           /\ exit_code = 0
    /\ resultado.kind = "returned" =>
           /\ {"raw", "clean", "negocio"} \subseteq archivos
           /\ "sqlite" \in archivos <=> resultado.sqlite # "No disponible"

\* C30 witness: one record was downloaded, the SQLite step failed and main
\* returned 0.
C30_Witness ==
    /\ SQLiteStepFailed
    /\ parsed = JList(<<Rec1>>)
    /\ resultado = RunReturned("No disponible", 1)
    /\ exit_code = 0

(***************************************************************************)
(* Termination of the download, checked under SpecFetchFair.               *)
(***************************************************************************)
CallEnded == pc = "done" /\ outcome.kind \in {"returned", "raised"}

\* C27: every call of fetch_con_reintentos ends: whatever max_retries, the
\* backoff base and the responses, it eventually returns or raises.
C27_FetchTerminates == <>CallEnded

\* C27 witness: a call given only failing responses ended after MaxRetries
\* attempts and as many waits.
C27_Witness ==
    /\ CallEnded
    /\ outcome.kind = "raised"
    /\ max_retries = MaxRetries
    /\ Len(got) = MaxRetries
    /\ Len(waits) = MaxRetries

(***************************************************************************)
(* The final raise, checked under SpecFetch.                                *)
(***************************************************************************)
\* C28: a call that fails has made at least one attempt, and the error it
\* raises was recorded during one of its attempts; the final raise is never
\* reached with last_error unset.
C28_FailureCarriesRecordedError ==
    (pc = "done" /\ outcome.kind = "raised") =>
        /\ requests_get >= 1
        /\ outcome.err # NoError
        /\ outcome.err.at \in 1..Len(got)
        /\ outcome.err.type # "TypeError"

====
